---- MODULE Spec2Model ----
(***************************************************************************)
(* Model of fcnet's topology engines: the simple topology (simple.rs:      *)
(* add / delete / check) and the namespaced topology's Add                 *)
(* (namespaced/add.rs).  The kernel (links, addresses, routes, nftables    *)
(* ruleset) is modelled per network namespace; every operation is one      *)
(* action that runs the whole handler, with Rust's `?` modelled as "a      *)
(* step does nothing once the run holds an error".                         *)
(***************************************************************************)
EXTENDS Integers, Sequences, FiniteSets, TLC

VARIABLES kernel, ambient, last, prev

vars == <<kernel, ambient, last, prev>>

(* ---------------------------- bounds ----------------------------------- *)

\* Largest rule handle the kernel hands out in the simple-topology runs.
MaxHandle == 4

(* ---------------------- fixed identifiers ------------------------------ *)

NFT_TABLE == "fcnet"
NFT_POSTROUTING_CHAIN == "postrouting"
NFT_FILTER_CHAIN == "filter"
NFT_PREROUTING_CHAIN == "prerouting"

\* Option::None of a rule handle.
None == 0

HostNs == "host"
Namespaces == {"host", "fcns0", "fcns1"}

(* --------------------------- addresses --------------------------------- *)

V4(a, l) == [fam |-> "v4", addr |-> a, len |-> l]
V6(a, l) == [fam |-> "v6", addr |-> a, len |-> l]
NoIp == [fam |-> "none", addr |-> "", len |-> 0]

nat_proto_from_addr(ip) == IF ip.fam = "v4" THEN "ip" ELSE "ip6"

(* ------------------------ network descriptions ------------------------- *)

Network(iface, tap, tapip, guest) ==
    [iface_name |-> iface, tap_name |-> tap, tap_ip |-> tapip, guest_ip |-> guest]

NetA == Network("eth0", "tap0", V4("172.16.0.1", 30), V4("172.16.0.2", 30))
\* shares iface_name and guest address with NetA (same masquerade expression)
NetB == Network("eth0", "tap1", V4("172.16.0.5", 30), V4("172.16.0.2", 30))
NoNet == Network("", "", NoIp, NoIp)

Networks == {NetA, NetB}

nf_family(network) == IF network.guest_ip.fam = "v4" THEN "ip" ELSE "ip6"

(* ------------------------ rule expressions ----------------------------- *)

Match(left, right) == <<"match", left, right, "==">>

masq_expr(network) ==
    << Match(<<"payload", nat_proto_from_addr(network.guest_ip), "saddr">>, network.guest_ip.addr),
       Match(<<"meta", "oifname">>, network.iface_name),
       <<"masquerade">> >>

forward_expr(network) ==
    << Match(<<"meta", "iifname">>, network.tap_name),
       Match(<<"meta", "oifname">>, network.iface_name),
       <<"accept">> >>

(* ------------------------ nftables objects ----------------------------- *)

NoAttrs == <<>>

Table(f, n) ==
    [kind |-> "table", family |-> f, table |-> n, chain |-> "", expr |-> <<>>,
     handle |-> None, attrs |-> NoAttrs]

Chain(f, t, n, a) ==
    [kind |-> "chain", family |-> f, table |-> t, chain |-> n, expr |-> <<>>,
     handle |-> None, attrs |-> a]

Rule(f, t, c, e, h) ==
    [kind |-> "rule", family |-> f, table |-> t, chain |-> c, expr |-> e,
     handle |-> h, attrs |-> NoAttrs]

BatchAdd(o) == [cmd |-> "add", obj |-> o]
BatchDelete(o) == [cmd |-> "delete", obj |-> o]

PostroutingAttrs == <<"nat", "postrouting", 100, "accept">>
PreroutingAttrs == <<"nat", "prerouting", -100, "accept">>
FilterAttrs == <<"filter", "forward", 0, "accept">>

HasTable(rs, f, t) ==
    \E i \in 1..Len(rs) : rs[i].kind = "table" /\ rs[i].family = f /\ rs[i].table = t

HasChain(rs, f, t, c) ==
    \E i \in 1..Len(rs) :
        rs[i].kind = "chain" /\ rs[i].family = f /\ rs[i].table = t /\ rs[i].chain = c

(* ------------------------- kernel state -------------------------------- *)

EmptyNs == [links |-> {}, ruleset |-> <<>>, nextHandle |-> 1, routes |-> {}]

Link(n, k) == [name |-> n, kind |-> k, up |-> FALSE, addrs |-> {}]

LinkExists(ls, n) == \E l \in ls : l.name = n
LinkOf(ls, n) == CHOOSE l \in ls : l.name = n

\* The kernel applying one command of an nft batch to (ruleset, next handle).
nft_apply_cmd(st, c) ==
    LET rs == st.rs
        o == c.obj
    IN IF ~st.ok THEN st
       ELSE IF c.cmd = "add" /\ o.kind = "table"
       THEN IF HasTable(rs, o.family, o.table) THEN st
            ELSE [st EXCEPT !.rs = Append(rs, o)]
       ELSE IF c.cmd = "add" /\ o.kind = "chain"
       THEN IF ~HasTable(rs, o.family, o.table) THEN [st EXCEPT !.ok = FALSE]
            ELSE IF HasChain(rs, o.family, o.table, o.chain) THEN st
            ELSE [st EXCEPT !.rs = Append(rs, o)]
       ELSE IF c.cmd = "add" /\ o.kind = "rule"
       THEN IF ~HasChain(rs, o.family, o.table, o.chain) THEN [st EXCEPT !.ok = FALSE]
            ELSE [st EXCEPT !.rs = Append(rs, [o EXCEPT !.handle = st.nh]),
                            !.nh = st.nh + 1]
       ELSE IF c.cmd = "delete" /\ o.kind = "rule"
       THEN LET hit == {i \in 1..Len(rs) :
                            /\ rs[i].kind = "rule" /\ rs[i].family = o.family
                            /\ rs[i].table = o.table /\ rs[i].chain = o.chain
                            /\ rs[i].handle = o.handle}
            IN IF o.handle = None \/ hit = {} THEN [st EXCEPT !.ok = FALSE]
               ELSE [st EXCEPT !.rs = SelectSeq(rs, LAMBDA x :
                                   ~(/\ x.kind = "rule" /\ x.family = o.family
                                     /\ x.table = o.table /\ x.chain = o.chain
                                     /\ x.handle = o.handle))]
       ELSE [st EXCEPT !.ok = FALSE]

RECURSIVE nft_apply_from(_, _, _)
nft_apply_from(st, batch, i) ==
    IF i > Len(batch) THEN st
    ELSE nft_apply_from(nft_apply_cmd(st, batch[i]), batch, i + 1)

\* An nft batch is one transaction: all of it or none of it.
nft_apply(nsk, batch) ==
    LET st == nft_apply_from([rs |-> nsk.ruleset, nh |-> nsk.nextHandle, ok |-> TRUE], batch, 1)
    IN IF st.ok THEN [ok |-> TRUE, ns |-> [nsk EXCEPT !.ruleset = st.rs, !.nextHandle = st.nh]]
       ELSE [ok |-> FALSE, ns |-> nsk]

(* --------------------- a run of one operation -------------------------- *)

\* k: kernel, ns: namespace the running thread is in, fault: the call the
\* environment makes fail, result: Ok until a step returns an error.
Ok == [err |-> "Ok", kind |-> ""]
Error(e) == [err |-> e, kind |-> ""]
ObjectNotFound(kind) == [err |-> "ObjectNotFound", kind |-> kind]

Start(k, ns, fault) ==
    [k |-> k, ns |-> ns, fault |-> fault, faulted |-> FALSE, result |-> Ok,
     steps |-> <<>>, batches |-> <<>>, snapshot |-> <<>>]

Running(r) == r.result = Ok
Log(r, id) == [r EXCEPT !.steps = Append(@, [id |-> id, ns |-> r.ns])]
Err(r, e) == [r EXCEPT !.result = e]
Inject(r, e) == [r EXCEPT !.result = e, !.faulted = TRUE]

(* ----------------- netlink, TAP and nftables calls --------------------- *)

\* TunBuilder::new().name(..).tap().persist().up().build(): creates the
\* persistent TAP, or attaches to the TAP of that name that already exists.
tap_build(r, name) ==
    IF ~Running(r) THEN r
    ELSE LET r1 == Log(r, "tap_build")
             ls == r.k[r.ns].links
         IN IF r.fault = "tap_build" THEN Inject(r1, Error("TapDeviceError"))
            ELSE IF LinkExists(ls, name)
            THEN IF LinkOf(ls, name).kind # "tap" THEN Err(r1, Error("TapDeviceError"))
                 ELSE [r1 EXCEPT !.k[r.ns].links =
                          (ls \ {LinkOf(ls, name)}) \cup {[LinkOf(ls, name) EXCEPT !.up = TRUE]}]
            ELSE [r1 EXCEPT !.k[r.ns].links = ls \cup {[Link(name, "tap") EXCEPT !.up = TRUE]}]

TapNames == {"tap0", "tap1"}
LinkKind(name) == IF name \in TapNames THEN "Tap" ELSE "Veth"

\* util::get_link_index: the index of the link of that name, in the
\* namespace of the handle (ns).
get_link_index(r, name, ns, id) ==
    IF ~Running(r) THEN r
    ELSE LET r1 == [r EXCEPT !.steps = Append(@, [id |-> id, ns |-> ns])]
         IN IF r.fault = id THEN Inject(r1, Error("NetlinkOperationError"))
            ELSE IF ~LinkExists(r.k[ns].links, name) THEN Err(r1, ObjectNotFound(LinkKind(name)))
            ELSE r1

\* handle.address().add(idx, address, prefix).execute(): EEXIST when the
\* link already carries the address.
address_add(r, name, ip, ns, id) ==
    IF ~Running(r) THEN r
    ELSE LET r1 == [r EXCEPT !.steps = Append(@, [id |-> id, ns |-> ns])]
             ls == r.k[ns].links
             l == LinkOf(ls, name)
         IN IF r.fault = id THEN Inject(r1, Error("NetlinkOperationError"))
            ELSE IF ip \in l.addrs THEN Err(r1, Error("NetlinkOperationError"))
            ELSE [r1 EXCEPT !.k[ns].links = (ls \ {l}) \cup {[l EXCEPT !.addrs = @ \cup {ip}]}]

\* handle.link().del(idx).execute()
link_del(r, name, ns, id) ==
    IF ~Running(r) THEN r
    ELSE LET r1 == [r EXCEPT !.steps = Append(@, [id |-> id, ns |-> ns])]
             ls == r.k[ns].links
         IN IF r.fault = id THEN Inject(r1, Error("NetlinkOperationError"))
            ELSE [r1 EXCEPT !.k[ns].links = ls \ {LinkOf(ls, name)}]

\* NftablesDriver::get_current_ruleset_with_args: `nft list ruleset` of the
\* namespace the calling thread is in.
get_current_ruleset(r, id) ==
    IF ~Running(r) THEN r
    ELSE LET r1 == Log(r, id)
         IN IF r.fault = id THEN Inject(r1, Error("NftablesError"))
            ELSE [r1 EXCEPT !.snapshot = r.k[r.ns].ruleset]

\* NftablesDriver::apply_ruleset_with_args: hands the batch to nft, in the
\* namespace the calling thread is in.
apply_ruleset(r, batch, id) ==
    IF ~Running(r) THEN r
    ELSE LET r1 == [Log(r, id) EXCEPT !.batches = Append(@, batch)]
             a == nft_apply(r.k[r.ns], batch)
         IN IF r.fault = id THEN Inject(r1, Error("NftablesError"))
            ELSE IF ~a.ok THEN Err(r1, Error("NftablesError"))
            ELSE [r1 EXCEPT !.k[r.ns] = a.ns]

\* util::add_base_chains_if_needed: the table and the two base chains, each
\* only when the snapshot lacks it.
add_base_chains_if_needed(network, current, batch) ==
    LET f == nf_family(network)
    IN batch
       \o (IF HasTable(current, f, NFT_TABLE) THEN <<>>
           ELSE <<BatchAdd(Table(f, NFT_TABLE))>>)
       \o (IF HasChain(current, f, NFT_TABLE, NFT_POSTROUTING_CHAIN) THEN <<>>
           ELSE <<BatchAdd(Chain(f, NFT_TABLE, NFT_POSTROUTING_CHAIN, PostroutingAttrs))>>)
       \o (IF HasChain(current, f, NFT_TABLE, NFT_FILTER_CHAIN) THEN <<>>
           ELSE <<BatchAdd(Chain(f, NFT_TABLE, NFT_FILTER_CHAIN, FilterAttrs))>>)

\* util::check_base_chains: the first missing base object as an error.
check_base_chains(r, network) ==
    IF ~Running(r) THEN r
    ELSE LET f == nf_family(network)
             current == r.snapshot
         IN IF ~HasTable(current, f, NFT_TABLE) THEN Err(r, ObjectNotFound("NfTable"))
            ELSE IF ~HasChain(current, f, NFT_TABLE, NFT_POSTROUTING_CHAIN)
            THEN Err(r, ObjectNotFound("NfPostroutingChain"))
            ELSE IF ~HasChain(current, f, NFT_TABLE, NFT_FILTER_CHAIN)
            THEN Err(r, ObjectNotFound("NfFilterChain"))
            ELSE r

(* ------------------------ simple topology ------------------------------ *)

\* add's scan when it never finds the masquerade rule.
add_masquerade_rule_never_found(current, network) == FALSE

\* simple.rs add, lines 53-65: the scan for the masquerade rule.
add_masquerade_rule_exists(current, network) ==
    \E i \in 1..Len(current) :
        /\ current[i].kind = "rule"
        /\ current[i].chain = NFT_POSTROUTING_CHAIN
        /\ current[i].table = NFT_TABLE
        /\ current[i].expr = masq_expr(network)

\* add's batch when the base chains are added whatever the snapshot holds.
add_batch_with_base_chains(network, current) ==
    add_base_chains_if_needed(network, <<>>, <<>>)
    \o <<BatchAdd(Rule(nf_family(network), NFT_TABLE, NFT_FILTER_CHAIN,
                       forward_expr(network), None))>>
    \o (IF ~add_masquerade_rule_exists(current, network)
        THEN <<BatchAdd(Rule(nf_family(network), NFT_TABLE, NFT_POSTROUTING_CHAIN,
                             masq_expr(network), None))>>
        ELSE <<>>)

\* add's batch when the forward rule is left out.
add_batch_without_forward_rule(network, current) ==
    add_base_chains_if_needed(network, current, <<>>)
    \o (IF ~add_masquerade_rule_exists(current, network)
        THEN <<BatchAdd(Rule(nf_family(network), NFT_TABLE, NFT_POSTROUTING_CHAIN,
                             masq_expr(network), None))>>
        ELSE <<>>)

\* simple.rs add, lines 67-90: the batch.
add_batch(network, current) ==
    add_base_chains_if_needed(network, current, <<>>)
    \o <<BatchAdd(Rule(nf_family(network), NFT_TABLE, NFT_FILTER_CHAIN,
                       forward_expr(network), None))>>
    \o (IF ~add_masquerade_rule_exists(current, network)
        THEN <<BatchAdd(Rule(nf_family(network), NFT_TABLE, NFT_POSTROUTING_CHAIN,
                             masq_expr(network), None))>>
        ELSE <<>>)

\* add when a failure after the TAP was built removes the TAP again.
add_rolling_back(r, network) ==
    LET r1 == tap_build(r, network.tap_name)
        r2 == get_link_index(r1, network.tap_name, r1.ns, "get_link_index")
        r3 == address_add(r2, network.tap_name, network.tap_ip, r2.ns, "address_add")
        r4 == get_current_ruleset(r3, "get_current_ruleset")
        r5 == apply_ruleset(r4, add_batch(network, r4.snapshot), "apply_ruleset")
        ls == r5.k[r5.ns].links
    IN IF Running(r5) \/ ~LinkExists(ls, network.tap_name) THEN r5
       ELSE [r5 EXCEPT !.k[r5.ns].links = ls \ {LinkOf(ls, network.tap_name)}]

add(r, network) ==
    LET r1 == tap_build(r, network.tap_name)
        r2 == get_link_index(r1, network.tap_name, r1.ns, "get_link_index")
        r3 == address_add(r2, network.tap_name, network.tap_ip, r2.ns, "address_add")
        r4 == get_current_ruleset(r3, "get_current_ruleset")
    IN apply_ruleset(r4, add_batch(network, r4.snapshot), "apply_ruleset")

\* simple.rs delete, lines 113-130: every matching rule overwrites the handle.
RECURSIVE delete_scan(_, _, _, _)
delete_scan(current, i, network, h) ==
    IF i > Len(current) THEN h
    ELSE LET rule == current[i]
         IN delete_scan(current, i + 1, network,
              IF rule.kind = "rule" /\ rule.table = NFT_TABLE
              THEN IF rule.chain = NFT_FILTER_CHAIN /\ rule.expr = forward_expr(network)
                   THEN [h EXCEPT !.forward_rule_handle = rule.handle]
                   ELSE IF rule.chain = NFT_POSTROUTING_CHAIN /\ rule.expr = masq_expr(network)
                   THEN [h EXCEPT !.masquerade_rule_handle = rule.handle]
                   ELSE h
              ELSE h)

delete_handles(current, network) ==
    delete_scan(current, 1, network,
                [forward_rule_handle |-> None, masquerade_rule_handle |-> None])

\* simple.rs delete, lines 143-161: the batch.
delete_batch(network, h) ==
    << BatchDelete(Rule(nf_family(network), NFT_TABLE, NFT_FILTER_CHAIN,
                        forward_expr(network), h.forward_rule_handle)),
       BatchDelete(Rule(nf_family(network), NFT_TABLE, NFT_POSTROUTING_CHAIN,
                        masq_expr(network), h.masquerade_rule_handle)) >>

\* delete when it leaves the TAP link in place.
delete_keeping_link(r, network) ==
    LET r1 == get_link_index(r, network.tap_name, r.ns, "get_link_index")
        r3 == get_current_ruleset(r1, "get_current_ruleset")
        h == delete_handles(r3.snapshot, network)
        r4 == IF ~Running(r3) THEN r3
              ELSE IF h.forward_rule_handle = None
              THEN Err(r3, ObjectNotFound("NfEgressForwardRule"))
              ELSE IF h.masquerade_rule_handle = None
              THEN Err(r3, ObjectNotFound("NfMasqueradeRule"))
              ELSE r3
    IN apply_ruleset(r4, delete_batch(network, h), "apply_ruleset")

\* delete when it looks for the masquerade rule before the forward rule.
delete_masquerade_first(r, network) ==
    LET r1 == get_link_index(r, network.tap_name, r.ns, "get_link_index")
        r2 == link_del(r1, network.tap_name, r1.ns, "link_del")
        r3 == get_current_ruleset(r2, "get_current_ruleset")
        h == delete_handles(r3.snapshot, network)
        r4 == IF ~Running(r3) THEN r3
              ELSE IF h.masquerade_rule_handle = None
              THEN Err(r3, ObjectNotFound("NfMasqueradeRule"))
              ELSE IF h.forward_rule_handle = None
              THEN Err(r3, ObjectNotFound("NfEgressForwardRule"))
              ELSE r3
    IN apply_ruleset(r4, delete_batch(network, h), "apply_ruleset")

\* delete when it removes the forward rule it found although the masquerade
\* rule is missing.
delete_found_rule_first(r, network) ==
    LET r1 == get_link_index(r, network.tap_name, r.ns, "get_link_index")
        r2 == link_del(r1, network.tap_name, r1.ns, "link_del")
        r3 == get_current_ruleset(r2, "get_current_ruleset")
        h == delete_handles(r3.snapshot, network)
        one == <<delete_batch(network, h)[1]>>
    IN IF ~Running(r3) THEN r3
       ELSE IF h.forward_rule_handle = None
       THEN Err(r3, ObjectNotFound("NfEgressForwardRule"))
       ELSE IF h.masquerade_rule_handle = None
       THEN LET r4 == apply_ruleset(r3, one, "apply_ruleset")
            IN IF Running(r4) THEN Err(r4, ObjectNotFound("NfMasqueradeRule")) ELSE r4
       ELSE apply_ruleset(r3, delete_batch(network, h), "apply_ruleset")

delete(r, network) ==
    LET r1 == get_link_index(r, network.tap_name, r.ns, "get_link_index")
        r2 == link_del(r1, network.tap_name, r1.ns, "link_del")
        r3 == get_current_ruleset(r2, "get_current_ruleset")
        h == delete_handles(r3.snapshot, network)
        r4 == IF ~Running(r3) THEN r3
              ELSE IF h.forward_rule_handle = None
              THEN Err(r3, ObjectNotFound("NfEgressForwardRule"))
              ELSE IF h.masquerade_rule_handle = None
              THEN Err(r3, ObjectNotFound("NfMasqueradeRule"))
              ELSE r3
    IN apply_ruleset(r4, delete_batch(network, h), "apply_ruleset")

\* simple.rs check, lines 182-196: the scan; the rule's table is not compared.
RECURSIVE check_scan(_, _, _, _)
check_scan(current, i, network, e) ==
    IF i > Len(current) THEN e
    ELSE LET rule == current[i]
         IN check_scan(current, i + 1, network,
              IF rule.kind = "rule"
              THEN IF rule.chain = NFT_POSTROUTING_CHAIN /\ rule.expr = masq_expr(network)
                   THEN [e EXCEPT !.masquerade_rule_exists = TRUE]
                   ELSE IF rule.chain = NFT_FILTER_CHAIN /\ rule.expr = forward_expr(network)
                   THEN [e EXCEPT !.forward_rule_exists = TRUE]
                   ELSE e
              ELSE e)

\* check when it repairs the base chains it finds missing.
check_repairing(r, network) ==
    LET r1 == get_link_index(r, network.tap_name, r.ns, "get_link_index")
        r2 == get_current_ruleset(r1, "get_current_ruleset")
    IN apply_ruleset(r2, add_base_chains_if_needed(network, r2.snapshot, <<>>), "apply_ruleset")

\* check when it reads the ruleset before it resolves the TAP.
check_ruleset_first(r, network) ==
    LET r2 == get_current_ruleset(r, "get_current_ruleset")
        r3 == check_base_chains(r2, network)
        r1 == get_link_index(r3, network.tap_name, r.ns, "get_link_index")
        e == check_scan(r1.snapshot, 1, network,
                        [masquerade_rule_exists |-> FALSE, forward_rule_exists |-> FALSE])
    IN IF ~Running(r1) THEN r1
       ELSE IF ~e.masquerade_rule_exists THEN Err(r1, ObjectNotFound("NfMasqueradeRule"))
       ELSE IF ~e.forward_rule_exists THEN Err(r1, ObjectNotFound("NfEgressForwardRule"))
       ELSE r1

check(r, network) ==
    LET r1 == get_link_index(r, network.tap_name, r.ns, "get_link_index")
        r2 == get_current_ruleset(r1, "get_current_ruleset")
        r3 == check_base_chains(r2, network)
        e == check_scan(r3.snapshot, 1, network,
                        [masquerade_rule_exists |-> FALSE, forward_rule_exists |-> FALSE])
    IN IF ~Running(r3) THEN r3
       ELSE IF ~e.masquerade_rule_exists THEN Err(r3, ObjectNotFound("NfMasqueradeRule"))
       ELSE IF ~e.forward_rule_exists THEN Err(r3, ObjectNotFound("NfEgressForwardRule"))
       ELSE r3

(* ---------------------- namespaced topology ---------------------------- *)

NamespacedData(netns, v1, v2, ip1, ip2, fwd) ==
    [netns_name |-> netns, veth1_name |-> v1, veth2_name |-> v2,
     veth1_ip |-> ip1, veth2_ip |-> ip2, forwarded_guest_ip |-> fwd]

NoNsd == NamespacedData("", "", "", NoIp, NoIp, NoIp)

\* forwarded_guest_ip: Option<IpAddr>; NoIp is None.
Addr4(a) == [fam |-> "v4", addr |-> a, len |-> 0]
Addr6(a) == [fam |-> "v6", addr |-> a, len |-> 0]
IsSome(ip) == ip # NoIp

Route(fam, dst, prefix, gw) == [fam |-> fam, dst |-> dst, prefix |-> prefix, gateway |-> gw]

outer_masq_expr(network, nsd) ==
    << Match(<<"payload", nat_proto_from_addr(nsd.veth2_ip), "saddr">>, nsd.veth2_ip.addr),
       Match(<<"meta", "oifname">>, network.iface_name),
       <<"masquerade">> >>

outer_ingress_forward_expr(network, nsd) ==
    << Match(<<"meta", "iifname">>, network.iface_name),
       Match(<<"meta", "oifname">>, nsd.veth1_name),
       <<"accept">> >>

outer_egress_forward_expr(network, nsd) ==
    << Match(<<"meta", "iifname">>, nsd.veth1_name),
       Match(<<"meta", "oifname">>, network.iface_name),
       <<"accept">> >>

inner_snat_expr(veth2_name, guest_ip, veth2_ip, family) ==
    << Match(<<"payload", nat_proto_from_addr(guest_ip), "saddr">>, guest_ip.addr),
       Match(<<"meta", "oifname">>, veth2_name),
       <<"snat", family, veth2_ip.addr>> >>

inner_dnat_expr(veth2_name, forwarded_guest_ip, guest_ip, family) ==
    << Match(<<"payload", nat_proto_from_addr(forwarded_guest_ip), "daddr">>, forwarded_guest_ip.addr),
       Match(<<"meta", "iifname">>, veth2_name),
       <<"dnat", family, guest_ip.addr>> >>

\* handle.link().add(LinkMessageBuilder::<LinkVeth>::new(veth1, veth2)): both
\* ends are created, down, in the namespace of the handle.
link_add_veth(r, veth1_name, veth2_name, ns, id) ==
    IF ~Running(r) THEN r
    ELSE LET r1 == [r EXCEPT !.steps = Append(@, [id |-> id, ns |-> ns])]
             ls == r.k[ns].links
         IN IF r.fault = id THEN Inject(r1, Error("NetlinkOperationError"))
            ELSE IF LinkExists(ls, veth1_name) \/ LinkExists(ls, veth2_name)
            THEN Err(r1, Error("NetlinkOperationError"))
            ELSE [r1 EXCEPT !.k[ns].links =
                     ls \cup {Link(veth1_name, "veth"), Link(veth2_name, "veth")}]

\* handle.link().set(... .up()): the named links go up.
link_set_up(r, names, ns, id) ==
    IF ~Running(r) THEN r
    ELSE LET r1 == [r EXCEPT !.steps = Append(@, [id |-> id, ns |-> ns])]
             ls == r.k[ns].links
         IN IF r.fault = id THEN Inject(r1, Error("NetlinkOperationError"))
            ELSE [r1 EXCEPT !.k[ns].links =
                     {IF l.name \in names THEN [l EXCEPT !.up = TRUE] ELSE l : l \in ls}]

\* NetNs::new(netns_name) and handle.link().set(... .setns_by_fd(fd)): the
\* link leaves the handle's namespace for the named one, down and without
\* addresses.
link_setns(r, name, netns_name, ns, id) ==
    IF ~Running(r) THEN r
    ELSE LET r1 == [r EXCEPT !.steps = Append(@, [id |-> id, ns |-> ns])]
             ls == r.k[ns].links
             l == LinkOf(ls, name)
         IN IF r.fault = "netns_open" THEN Inject(r1, Error("NetnsError"))
            ELSE IF netns_name \notin Namespaces THEN Err(r1, Error("NetnsError"))
            ELSE IF r.fault = id THEN Inject(r1, Error("NetlinkOperationError"))
            ELSE IF netns_name = ns THEN r1
            ELSE IF LinkExists(r.k[netns_name].links, name)
            THEN Err(r1, Error("NetlinkOperationError"))
            ELSE [r1 EXCEPT !.k[ns].links = ls \ {l},
                            !.k[netns_name].links = @ \cup {Link(name, l.kind)}]

\* handle.route().add(route).execute(): EEXIST when the namespace of the
\* handle already has a route to that destination.
route_add(r, route, ns, id) ==
    IF ~Running(r) THEN r
    ELSE LET r1 == [r EXCEPT !.steps = Append(@, [id |-> id, ns |-> ns])]
             rt == r.k[ns].routes
         IN IF r.fault = id THEN Inject(r1, Error("NetlinkOperationError"))
            ELSE IF \E x \in rt : x.fam = route.fam /\ x.dst = route.dst /\ x.prefix = route.prefix
            THEN Err(r1, Error("NetlinkOperationError"))
            ELSE [r1 EXCEPT !.k[ns].routes = rt \cup {route}]

\* rtnetlink::new_connection_with_socket: a handle bound to the namespace
\* the calling thread is in.
new_connection(r, id) ==
    IF ~Running(r) THEN r
    ELSE IF r.fault = id THEN Inject(Log(r, id), Error("IoError"))
    ELSE Log(r, id)

\* namespaced::use_netns_in_thread, up to the start of the task: the task
\* runs in the named namespace.
use_netns_in_thread_enter(r, netns_name) ==
    IF ~Running(r) THEN r
    ELSE LET r1 == Log(r, "use_netns_in_thread")
         IN IF r.fault = "use_netns_in_thread" THEN Inject(r1, Error("NetnsError"))
            ELSE IF netns_name \notin Namespaces THEN Err(r1, Error("NetnsError"))
            ELSE [r1 EXCEPT !.ns = netns_name]

\* namespaced::use_netns_in_thread, from the end of the task: the caller is
\* in the namespace it called from (caller_ns), whatever the task returned.
use_netns_in_thread_return(t, caller_ns) == [t EXCEPT !.ns = caller_ns]

setup_outer_interfaces(r, nsd, outer) ==
    LET r1 == link_add_veth(r, nsd.veth1_name, nsd.veth2_name, outer, "veth_add")
        r2 == get_link_index(r1, nsd.veth1_name, outer, "veth1_index")
        r3 == address_add(r2, nsd.veth1_name, nsd.veth1_ip, outer, "veth1_addr")
        r4 == link_set_up(r3, {nsd.veth1_name, nsd.veth2_name}, outer, "veth_up")
        r5 == get_link_index(r4, nsd.veth2_name, outer, "veth2_index")
    IN link_setns(r5, nsd.veth2_name, nsd.netns_name, outer, "veth2_setns")

setup_outer_nf_rules(r, nsd, network) ==
    LET r1 == get_current_ruleset(r, "outer_get_ruleset")
        f == nf_family(network)
        batch == add_base_chains_if_needed(network, r1.snapshot, <<>>)
                 \o << BatchAdd(Rule(f, NFT_TABLE, NFT_POSTROUTING_CHAIN,
                                     outer_masq_expr(network, nsd), None)),
                       BatchAdd(Rule(f, NFT_TABLE, NFT_FILTER_CHAIN,
                                     outer_ingress_forward_expr(network, nsd), None)),
                       BatchAdd(Rule(f, NFT_TABLE, NFT_FILTER_CHAIN,
                                     outer_egress_forward_expr(network, nsd), None)) >>
    IN apply_ruleset(r1, batch, "outer_apply")

\* setup_outer_forward_route when it takes the gateway without looking at
\* its family.
setup_outer_forward_route_unchecked(r, nsd, outer) ==
    IF ~Running(r) THEN r
    ELSE IF IsSome(nsd.forwarded_guest_ip)
    THEN route_add(r, Route(nsd.forwarded_guest_ip.fam, nsd.forwarded_guest_ip.addr,
                            IF nsd.forwarded_guest_ip.fam = "v4" THEN 32 ELSE 128,
                            nsd.veth2_ip.addr),
                   outer, "outer_route")
    ELSE r

setup_outer_forward_route(r, nsd, outer) ==
    IF ~Running(r) THEN r
    ELSE IF IsSome(nsd.forwarded_guest_ip)
    THEN IF nsd.forwarded_guest_ip.fam = "v4"
         THEN IF nsd.veth2_ip.fam = "v4"
              THEN route_add(r, Route("v4", nsd.forwarded_guest_ip.addr, 32, nsd.veth2_ip.addr),
                             outer, "outer_route")
              ELSE Err(r, Error("ForbiddenDualStackInRoute"))
         ELSE IF nsd.veth2_ip.fam = "v4"
              THEN Err(r, Error("ForbiddenDualStackInRoute"))
              ELSE route_add(r, Route("v6", nsd.forwarded_guest_ip.addr, 128, nsd.veth2_ip.addr),
                             outer, "outer_route")
    ELSE r

\* setup_inner_interfaces when the TAP is addressed and brought up before
\* veth2 and the default route are set up.
setup_inner_interfaces_tap_first(r, tap_name, tap_ip, veth2_name, veth2_ip, veth1_ip) ==
    LET r1 == tap_build(r, tap_name)
        r2 == new_connection(r1, "new_connection")
        inner == r2.ns
        r3 == get_link_index(r2, tap_name, inner, "tap_index")
        r4 == address_add(r3, tap_name, tap_ip, inner, "tap_addr")
        r5 == link_set_up(r4, {tap_name}, inner, "tap_up")
        r6 == get_link_index(r5, veth2_name, inner, "inner_veth2_index")
        r7 == address_add(r6, veth2_name, veth2_ip, inner, "veth2_addr")
        r8 == link_set_up(r7, {veth2_name}, inner, "veth2_up")
    IN route_add(r8, Route(veth1_ip.fam, "default", 0, veth1_ip.addr), inner, "default_route")

setup_inner_interfaces(r, tap_name, tap_ip, veth2_name, veth2_ip, veth1_ip) ==
    LET r1 == tap_build(r, tap_name)
        r2 == new_connection(r1, "new_connection")
        inner == r2.ns
        r3 == get_link_index(r2, veth2_name, inner, "inner_veth2_index")
        r4 == address_add(r3, veth2_name, veth2_ip, inner, "veth2_addr")
        r5 == link_set_up(r4, {veth2_name}, inner, "veth2_up")
        r6 == route_add(r5, Route(veth1_ip.fam, "default", 0, veth1_ip.addr), inner,
                        "default_route")
        r7 == get_link_index(r6, tap_name, inner, "tap_index")
        r8 == address_add(r7, tap_name, tap_ip, inner, "tap_addr")
    IN link_set_up(r8, {tap_name}, inner, "tap_up")

\* The inner batch when the prerouting chain and the DNAT rule are left out.
inner_batch_without_forwarding(nf, veth2_name, veth2_ip, forwarded_guest_ip, guest_ip) ==
    << BatchAdd(Table(nf, NFT_TABLE)),
       BatchAdd(Chain(nf, NFT_TABLE, NFT_POSTROUTING_CHAIN, PostroutingAttrs)),
       BatchAdd(Rule(nf, NFT_TABLE, NFT_POSTROUTING_CHAIN,
                     inner_snat_expr(veth2_name, guest_ip, veth2_ip, nf), None)) >>

\* add.rs setup_inner_nf_rules, lines 257-318: the batch.
inner_batch(nf, veth2_name, veth2_ip, forwarded_guest_ip, guest_ip) ==
    << BatchAdd(Table(nf, NFT_TABLE)),
       BatchAdd(Chain(nf, NFT_TABLE, NFT_POSTROUTING_CHAIN, PostroutingAttrs)) >>
    \o (IF IsSome(forwarded_guest_ip)
        THEN <<BatchAdd(Chain(nf, NFT_TABLE, NFT_PREROUTING_CHAIN, PreroutingAttrs))>>
        ELSE <<>>)
    \o <<BatchAdd(Rule(nf, NFT_TABLE, NFT_POSTROUTING_CHAIN,
                       inner_snat_expr(veth2_name, guest_ip, veth2_ip, nf), None))>>
    \o (IF IsSome(forwarded_guest_ip)
        THEN <<BatchAdd(Rule(nf, NFT_TABLE, NFT_PREROUTING_CHAIN,
                             inner_dnat_expr(veth2_name, forwarded_guest_ip, guest_ip, nf), None))>>
        ELSE <<>>)

setup_inner_nf_rules(r, nf, veth2_name, veth2_ip, forwarded_guest_ip, guest_ip) ==
    apply_ruleset(r, inner_batch(nf, veth2_name, veth2_ip, forwarded_guest_ip, guest_ip),
                  "inner_apply")

\* add when the outer nftables step is inside the task handed to
\* use_netns_in_thread.
namespaced_add_outer_rules_in_task(r, nsd, network) ==
    LET outer == r.ns
        r1 == setup_outer_interfaces(r, nsd, outer)
        t0 == use_netns_in_thread_enter(r1, nsd.netns_name)
        t1 == setup_inner_interfaces(t0, network.tap_name, network.tap_ip,
                                     nsd.veth2_name, nsd.veth2_ip, nsd.veth1_ip)
        t2 == setup_inner_nf_rules(t1, nf_family(network), nsd.veth2_name, nsd.veth2_ip,
                                   nsd.forwarded_guest_ip, network.guest_ip)
        t3 == setup_outer_nf_rules(t2, nsd, network)
        r2 == use_netns_in_thread_return(t3, r1.ns)
    IN setup_outer_forward_route(r2, nsd, outer)

\* namespaced::add::add; outer_handle is bound to the namespace the caller
\* is in.
namespaced_add(r, nsd, network) ==
    LET outer == r.ns
        r1 == setup_outer_interfaces(r, nsd, outer)
        t0 == use_netns_in_thread_enter(r1, nsd.netns_name)
        t1 == setup_inner_interfaces(t0, network.tap_name, network.tap_ip,
                                     nsd.veth2_name, nsd.veth2_ip, nsd.veth1_ip)
        t2 == setup_inner_nf_rules(t1, nf_family(network), nsd.veth2_name, nsd.veth2_ip,
                                   nsd.forwarded_guest_ip, network.guest_ip)
        r2 == use_netns_in_thread_return(t2, r1.ns)
        r3 == setup_outer_nf_rules(r2, nsd, network)
    IN setup_outer_forward_route(r3, nsd, outer)

(* ------------------------ state machine -------------------------------- *)

\* What the last operation was, the kernel it started from (pre), what it
\* returned and what it called.
Outcome(op, network, nsd, r, k0) ==
    [op |-> op, net |-> network, nsd |-> nsd,
     fault |-> IF r.faulted THEN r.fault ELSE "none",
     result |-> r.result, steps |-> r.steps, batches |-> r.batches,
     snapshot |-> r.snapshot, pre |-> k0]

NoOp(k0) ==
    [op |-> "None", net |-> NoNet, nsd |-> NoNsd, fault |-> "none", result |-> Ok,
     steps |-> <<>>, batches |-> <<>>, snapshot |-> <<>>, pre |-> k0]

\* The operation before the last one, remembered when it succeeded.
Brief(o) ==
    IF o.result = Ok
    THEN [op |-> o.op, net |-> o.net, nsd |-> o.nsd, result |-> o.result]
    ELSE [op |-> "None", net |-> NoNet, nsd |-> NoNsd, result |-> Ok]

\* A table of another tool that uses the same chain names and holds rules
\* with NetA's expressions.
ForeignRuleset ==
    << Table("ip", "other"),
       Chain("ip", "other", NFT_POSTROUTING_CHAIN, PostroutingAttrs),
       Chain("ip", "other", NFT_FILTER_CHAIN, FilterAttrs),
       Rule("ip", "other", NFT_POSTROUTING_CHAIN, masq_expr(NetA), 1),
       Rule("ip", "other", NFT_FILTER_CHAIN, forward_expr(NetA), 2) >>

InitRulesets == {<<>>, ForeignRuleset}

\* The calls of each operation that the environment can make fail.
AddFaults ==
    {"none", "tap_build", "get_link_index", "address_add", "get_current_ruleset",
     "apply_ruleset"}
DeleteFaults == {"none", "get_link_index", "link_del", "get_current_ruleset", "apply_ruleset"}
CheckFaults == {"none", "get_link_index", "get_current_ruleset"}

Init ==
    /\ \E rs \in InitRulesets :
          kernel = [ns \in Namespaces |->
                      IF ns = HostNs THEN [EmptyNs EXCEPT !.ruleset = rs] ELSE EmptyNs]
    /\ ambient = HostNs
    /\ last = NoOp(kernel)
    /\ prev = Brief(last)

Finish(op, network, nsd, r) ==
    /\ kernel' = r.k
    /\ ambient' = r.ns
    /\ last' = Outcome(op, network, nsd, r, kernel)
    /\ prev' = Brief(last)

\* simple::run with FirecrackerNetworkOperation::Add
Add(network, fault) ==
    LET r == add(Start(kernel, ambient, fault), network)
    IN /\ r.k[HostNs].nextHandle <= MaxHandle + 1
       /\ Finish("Add", network, NoNsd, r)

\* simple::run with FirecrackerNetworkOperation::Delete
Delete(network, fault) ==
    Finish("Delete", network, NoNsd, delete(Start(kernel, ambient, fault), network))

\* simple::run with FirecrackerNetworkOperation::Check
Check(network, fault) ==
    Finish("Check", network, NoNsd, check(Start(kernel, ambient, fault), network))

\* The namespaced invocations: S4 (no forwarding), S5 (forwarding), S6
\* (IPv6 forwarded address on an IPv4 topology), the same three shapes on an
\* IPv6 topology in a second namespace, and a namespace that does not exist.
NetV6 == Network("eth0", "tap1", V6("fd00::1", 64), V6("fd00::2", 64))

NsdS4 == NamespacedData("fcns0", "vh0", "vg0", V4("10.0.0.1", 30), V4("10.0.0.2", 30), NoIp)
NsdS5 == [NsdS4 EXCEPT !.forwarded_guest_ip = Addr4("192.0.2.7")]
NsdS6 == [NsdS4 EXCEPT !.forwarded_guest_ip = Addr6("2001:db8::7")]
NsdV6 == NamespacedData("fcns1", "vh1", "vg1", V6("fd01::1", 64), V6("fd01::2", 64),
                        Addr6("2001:db8::7"))
NsdV6Mixed == [NsdV6 EXCEPT !.forwarded_guest_ip = Addr4("192.0.2.7")]
NsdNoNetns == [NsdS4 EXCEPT !.netns_name = "nons"]

Invocations ==
    {[net |-> NetA, nsd |-> d] : d \in {NsdS4, NsdS5, NsdS6, NsdNoNetns}}
    \cup {[net |-> NetV6, nsd |-> d] : d \in {NsdV6, NsdV6Mixed}}

NamespacedAddFaults ==
    {"none", "veth_add", "veth1_index", "veth1_addr", "veth_up", "veth2_index", "netns_open",
     "veth2_setns", "use_netns_in_thread", "tap_build", "new_connection", "inner_veth2_index",
     "veth2_addr", "veth2_up", "default_route", "tap_index", "tap_addr", "tap_up",
     "inner_apply", "outer_get_ruleset", "outer_apply", "outer_route"}

\* namespaced::run with FirecrackerNetworkOperation::Add
NamespacedAdd(network, nsd, fault) ==
    Finish("NamespacedAdd", network, nsd, namespaced_add(Start(kernel, ambient, fault), nsd, network))

NextNamespaced ==
    \E i \in Invocations, fault \in NamespacedAddFaults : NamespacedAdd(i.net, i.nsd, fault)

SpecNamespaced == Init /\ [][NextNamespaced]_vars

\* Both topologies on one host that starts without nftables objects: the
\* simple operations of NetA, a namespaced Add with forwarding into fcns0 and
\* one without forwarding into fcns1.
NsdS4b == NamespacedData("fcns1", "vh1", "vg1", V4("10.0.1.1", 30), V4("10.0.1.2", 30), NoIp)

MixedNetworks == {NetA}

InitMixed ==
    /\ kernel = [ns \in Namespaces |-> EmptyNs]
    /\ ambient = HostNs
    /\ last = NoOp(kernel)
    /\ prev = Brief(last)

NextMixed ==
    \/ \E network \in MixedNetworks, fault \in AddFaults : Add(network, fault)
    \/ \E network \in MixedNetworks, fault \in DeleteFaults : Delete(network, fault)
    \/ \E network \in MixedNetworks, fault \in CheckFaults : Check(network, fault)
    \/ \E fault \in NamespacedAddFaults : NamespacedAdd(NetA, NsdS5, fault)
    \/ NamespacedAdd(NetB, NsdS4b, "none")

SpecMixed == InitMixed /\ [][NextMixed]_vars

Next ==
    \/ \E network \in Networks, fault \in AddFaults : Add(network, fault)
    \/ \E network \in Networks, fault \in DeleteFaults : Delete(network, fault)
    \/ \E network \in Networks, fault \in CheckFaults : Check(network, fault)

Spec == Init /\ [][Next]_vars


(* ------------------------------ claims --------------------------------- *)

CountRules(rs, t, c, e) ==
    Cardinality({i \in 1..Len(rs) :
                    rs[i].kind = "rule" /\ rs[i].table = t /\ rs[i].chain = c /\ rs[i].expr = e})

MasqCount(k, network) ==
    CountRules(k[HostNs].ruleset, NFT_TABLE, NFT_POSTROUTING_CHAIN, masq_expr(network))
ForwardCount(k, network) ==
    CountRules(k[HostNs].ruleset, NFT_TABLE, NFT_FILTER_CHAIN, forward_expr(network))
TapExists(k, network) == LinkExists(k[HostNs].links, network.tap_name)

StepIds(steps) == {steps[i].id : i \in 1..Len(steps)}
LastStep(steps) == IF steps = <<>> THEN "" ELSE steps[Len(steps)].id

\* The rules a batch adds to (or deletes from) a chain of NFT_TABLE.
BatchRules(batch, cmd, c, e) ==
    Cardinality({i \in 1..Len(batch) :
                    /\ batch[i].cmd = cmd /\ batch[i].obj.kind = "rule"
                    /\ batch[i].obj.table = NFT_TABLE /\ batch[i].obj.chain = c
                    /\ batch[i].obj.expr = e})

\* C1: right after a successful simple Add the ruleset holds exactly one
\* masquerade rule and exactly one forward rule of the network.
C1_OneRuleOfEachAfterAdd ==
    (last.op = "Add" /\ last.result = Ok)
        => /\ MasqCount(kernel, last.net) = 1
           /\ ForwardCount(kernel, last.net) = 1

\* C2: right after a successful simple Delete the TAP is gone and no rule
\* with the network's forward or masquerade expression is left.
C2_NothingLeftAfterDelete ==
    (last.op = "Delete" /\ last.result = Ok)
        => /\ ~TapExists(kernel, last.net)
           /\ ForwardCount(kernel, last.net) = 0
           /\ MasqCount(kernel, last.net) = 0

\* C3: a simple Check, whatever it returns, leaves links, addresses and
\* ruleset as they were and hands no batch to nft.
C3_CheckNeverMutates ==
    [][last'.op = "Check"
          => /\ kernel' = kernel
             /\ last'.batches = <<>>
             /\ "apply_ruleset" \notin StepIds(last'.steps)]_vars

C3_Witness ==
    /\ last.op = "Check" /\ last.result = Ok
    /\ prev.op = "Add"
    /\ kernel = last.pre

\* C4: the batch of a simple Add always adds the forward rule; it adds the
\* masquerade rule exactly when the snapshot has no rule of that expression
\* in NFT_POSTROUTING_CHAIN of NFT_TABLE.
C4_MasqueradeOnlyWhenAbsent ==
    (last.op = "Add" /\ last.batches # <<>>)
        => LET batch == last.batches[1]
               in_snapshot == CountRules(last.snapshot, NFT_TABLE, NFT_POSTROUTING_CHAIN,
                                         masq_expr(last.net)) > 0
           IN /\ Len(last.batches) = 1
              /\ BatchRules(batch, "add", NFT_FILTER_CHAIN, forward_expr(last.net)) = 1
              /\ BatchRules(batch, "add", NFT_POSTROUTING_CHAIN, masq_expr(last.net))
                    = IF in_snapshot THEN 0 ELSE 1

C4_Witness ==
    /\ last.op = "Add" /\ last.result = Ok
    /\ CountRules(last.snapshot, NFT_TABLE, NFT_POSTROUTING_CHAIN, masq_expr(last.net)) = 1
    /\ BatchRules(last.batches[1], "add", NFT_POSTROUTING_CHAIN, masq_expr(last.net)) = 0
    /\ BatchRules(last.batches[1], "add", NFT_FILTER_CHAIN, forward_expr(last.net)) = 1

\* C5: a successful simple Add followed by a successful Delete of the same
\* network leaves the links and the rules with the network's expressions as
\* they were before the Add.
C5_AddDeleteRestores ==
    [][(/\ last.op = "Add" /\ last.result = Ok
        /\ last'.op = "Delete" /\ last'.net = last.net /\ last'.result = Ok)
          => /\ kernel'[HostNs].links = last.pre[HostNs].links
             /\ ForwardCount(kernel', last.net) = ForwardCount(last.pre, last.net)
             /\ MasqCount(kernel', last.net) = MasqCount(last.pre, last.net)]_vars

Families(network, nsd) ==
    {ip.fam : ip \in {nsd.veth1_ip, nsd.veth2_ip, network.guest_ip, network.tap_ip}
                      \cup (IF IsSome(nsd.forwarded_guest_ip) THEN {nsd.forwarded_guest_ip} ELSE {})}

\* C6: a namespaced Add whose addresses mix IPv4 and IPv6 returns an error
\* and has changed nothing in any namespace.
C6_MixedFamiliesRejectedFirst ==
    (last.op = "NamespacedAdd" /\ Cardinality(Families(last.net, last.nsd)) > 1)
        => /\ last.result # Ok
           /\ kernel = last.pre

OuterSteps == {"outer_get_ruleset", "outer_apply", "outer_route"}

\* C7: a namespaced Add leaves the caller in the namespace it was in,
\* whether the task in the inner namespace succeeded or not, and its outer
\* nftables and route steps act on that namespace.
C7_CallerNamespaceKept ==
    [][last'.op = "NamespacedAdd"
          => /\ ambient' = ambient
             /\ \A i \in 1..Len(last'.steps) :
                    last'.steps[i].id \in OuterSteps => last'.steps[i].ns = ambient]_vars

C7_Witness ==
    /\ last.op = "NamespacedAdd"
    /\ last.result = Error("NftablesError")
    /\ LastStep(last.steps) = "inner_apply"
    /\ last.steps[Len(last.steps)].ns = last.nsd.netns_name
    /\ ambient = HostNs

\* C8: the Delete that follows a successful simple Add succeeds, removes
\* the TAP and one rule of each of the two expressions (all of them when the
\* Add started without any); the Delete that follows that one returns
\* ObjectNotFound(Tap) and changes nothing.
C8_DeleteThenDeleteAgain ==
    [][(last'.op = "Delete" /\ last'.net = last.net /\ last'.fault = "none")
          => /\ (last.op = "Add" /\ last.result = Ok)
                  => /\ last'.result = Ok
                     /\ ~TapExists(kernel', last.net)
                     /\ ForwardCount(kernel', last.net) = ForwardCount(kernel, last.net) - 1
                     /\ MasqCount(kernel', last.net) = MasqCount(kernel, last.net) - 1
                     /\ (ForwardCount(last.pre, last.net) = 0 /\ MasqCount(last.pre, last.net) = 0)
                          => (ForwardCount(kernel', last.net) = 0 /\ MasqCount(kernel', last.net) = 0)
             /\ (last.op = "Delete" /\ last.result = Ok)
                  => /\ last'.result = ObjectNotFound("Tap")
                     /\ kernel' = kernel]_vars

C8_Witness ==
    /\ last.op = "Delete" /\ last.result = ObjectNotFound("Tap")
    /\ prev.op = "Delete" /\ prev.net = last.net /\ prev.result = Ok
    /\ kernel = last.pre

\* C9: a simple Check of a network whose TAP does not exist returns
\* ObjectNotFound(Tap) and never lists the ruleset, whatever the ruleset holds.
C9_CheckWithoutTap ==
    (last.op = "Check" /\ ~TapExists(last.pre, last.net))
        => /\ last.fault = "none" => last.result = ObjectNotFound("Tap")
           /\ "get_current_ruleset" \notin StepIds(last.steps)
           /\ last.snapshot = <<>>
           /\ last.batches = <<>>

C9_Witness ==
    /\ last.op = "Check" /\ last.result = ObjectNotFound("Tap")
    /\ MasqCount(kernel, last.net) > 0
    /\ ForwardCount(kernel, last.net) > 0

DualStackRoute(nsd) ==
    IsSome(nsd.forwarded_guest_ip) /\ nsd.forwarded_guest_ip.fam # nsd.veth2_ip.fam

\* C10: a namespaced Add whose forwarded_guest_ip is of another family than
\* veth2_ip never succeeds and never adds a host route; once its outer
\* nftables batch is applied it returns ForbiddenDualStackInRoute, and it
\* returns that error nowhere else.
C10_DualStackAtRouteStep ==
    (last.op = "NamespacedAdd" /\ DualStackRoute(last.nsd))
        => /\ last.result # Ok
           /\ kernel[HostNs].routes = last.pre[HostNs].routes
           /\ "outer_route" \notin StepIds(last.steps)
           /\ (LastStep(last.steps) = "outer_apply" /\ last.result # Error("NftablesError"))
                 => last.result = Error("ForbiddenDualStackInRoute")
           /\ last.result = Error("ForbiddenDualStackInRoute")
                 => /\ LastStep(last.steps) = "outer_apply"
                    /\ Len(last.batches) = 2
                    /\ kernel[HostNs].ruleset # last.pre[HostNs].ruleset

C10_Witness ==
    /\ last.op = "NamespacedAdd" /\ last.nsd = NsdS6
    /\ last.result = Error("ForbiddenDualStackInRoute")
    /\ kernel[HostNs].routes = {}

\* What is left of a network in the host namespace.
Remains(k, network) ==
    TapExists(k, network) \/ ForwardCount(k, network) > 0 \/ MasqCount(k, network) > 0

\* Nothing of any other network is on the host.
Alone(k, network) ==
    \A other \in Networks \ {network} : ~TapExists(k, other) /\ ForwardCount(k, other) = 0

\* C11: repeated Delete invocations eventually remove everything that is
\* left of a network. Delete is deterministic and only ever removes objects,
\* so this holds exactly when no Delete that meets no outside failure leaves
\* the host as it found it while something of the network remains: such a
\* Delete would do the same on every repetition. Stated for a network that
\* is alone on the host, so that every remaining object is its own.
C11_RepeatedDeleteCleansUp ==
    [][(/\ last'.op = "Delete"
        /\ last'.fault = "none"
        /\ Alone(kernel, last'.net)
        /\ Remains(kernel, last'.net)) => kernel' # kernel]_vars

\* The NFT_TABLE tables and base chains of one family in a ruleset, and the
\* ones a batch adds.
TableCount(rs, f) ==
    Cardinality({i \in 1..Len(rs) :
                    rs[i].kind = "table" /\ rs[i].family = f /\ rs[i].table = NFT_TABLE})
ChainCount(rs, f, c) ==
    Cardinality({i \in 1..Len(rs) :
                    /\ rs[i].kind = "chain" /\ rs[i].family = f
                    /\ rs[i].table = NFT_TABLE /\ rs[i].chain = c})
AddsTable(batch, f) ==
    \E i \in 1..Len(batch) : batch[i] = BatchAdd(Table(f, NFT_TABLE))
AddsChain(batch, f, c) ==
    \E i \in 1..Len(batch) :
        /\ batch[i].cmd = "add" /\ batch[i].obj.kind = "chain" /\ batch[i].obj.family = f
        /\ batch[i].obj.table = NFT_TABLE /\ batch[i].obj.chain = c
BaseChains == {NFT_POSTROUTING_CHAIN, NFT_FILTER_CHAIN, NFT_PREROUTING_CHAIN}
NfFamilies == {"ip", "ip6"}

\* The batch of a simple Add, or of the outer step of a namespaced Add, adds
\* each base object exactly when the snapshot lacks it.
OnlyWhenAbsent(batch, current, f) ==
    /\ AddsTable(batch, f) <=> ~HasTable(current, f, NFT_TABLE)
    /\ \A c \in {NFT_POSTROUTING_CHAIN, NFT_FILTER_CHAIN} :
          AddsChain(batch, f, c) <=> ~HasChain(current, f, NFT_TABLE, c)
    /\ ~AddsChain(batch, f, NFT_PREROUTING_CHAIN)

\* C12: on a host that starts without nftables objects, however many Adds
\* of either topology run, no namespace ever holds a second NFT_TABLE or a
\* second base chain of a name; after a successful Add the host (and, for a
\* namespaced Add, the inner namespace) holds exactly one of each; the simple
\* batch and the outer batch add a base object only when the snapshot lacks
\* it, and the inner batch adds the table and its chains on every call.
C12_NoDuplicateBaseObjects ==
    /\ \A ns \in Namespaces, f \in NfFamilies :
          /\ TableCount(kernel[ns].ruleset, f) <= 1
          /\ \A c \in BaseChains : ChainCount(kernel[ns].ruleset, f, c) <= 1
    /\ (last.op \in {"Add", "NamespacedAdd"} /\ last.result = Ok) =>
          LET f == nf_family(last.net)
              rs == kernel[HostNs].ruleset
          IN /\ TableCount(rs, f) = 1
             /\ ChainCount(rs, f, NFT_POSTROUTING_CHAIN) = 1
             /\ ChainCount(rs, f, NFT_FILTER_CHAIN) = 1
    /\ (last.op = "NamespacedAdd" /\ last.result = Ok) =>
          LET f == nf_family(last.net)
              rs == kernel[last.nsd.netns_name].ruleset
          IN /\ TableCount(rs, f) = 1
             /\ ChainCount(rs, f, NFT_POSTROUTING_CHAIN) = 1
             /\ ChainCount(rs, f, NFT_PREROUTING_CHAIN)
                   = (IF IsSome(last.nsd.forwarded_guest_ip) THEN 1 ELSE 0)
    /\ (last.op = "Add" /\ Len(last.batches) = 1) =>
          OnlyWhenAbsent(last.batches[1], last.snapshot, nf_family(last.net))
    /\ (last.op = "NamespacedAdd" /\ Len(last.batches) >= 1) =>
          /\ AddsTable(last.batches[1], nf_family(last.net))
          /\ AddsChain(last.batches[1], nf_family(last.net), NFT_POSTROUTING_CHAIN)
    /\ (last.op = "NamespacedAdd" /\ Len(last.batches) = 2) =>
          OnlyWhenAbsent(last.batches[2], last.snapshot, nf_family(last.net))

\* A second successful Add, of the other topology, that found the base
\* objects of the first in its snapshot.
C12_Witness ==
    /\ prev.op \in {"Add", "NamespacedAdd"} /\ prev.result = Ok
    /\ last.op \in {"Add", "NamespacedAdd"} /\ last.result = Ok
    /\ prev.op # last.op
    /\ HasTable(last.snapshot, nf_family(last.net), NFT_TABLE)
    /\ HasChain(last.snapshot, nf_family(last.net), NFT_TABLE, NFT_FILTER_CHAIN)
    /\ TableCount(kernel[HostNs].ruleset, nf_family(last.net)) = 1

\* The host route of a forwarded guest address.
ForwardRoute(nsd) ==
    Route(nsd.forwarded_guest_ip.fam, nsd.forwarded_guest_ip.addr,
          IF nsd.forwarded_guest_ip.fam = "v4" THEN 32 ELSE 128, nsd.veth2_ip.addr)

\* The rules a batch adds to the prerouting chain.
PreroutingRules(batch) ==
    {i \in 1..Len(batch) :
        batch[i].obj.kind = "rule" /\ batch[i].obj.chain = NFT_PREROUTING_CHAIN}

\* C13: the inner batch of a namespaced Add always adds the table, the
\* postrouting chain and the SNAT rule, and adds the prerouting chain and
\* the DNAT rule exactly when forwarded_guest_ip is Some; the Add reaches the
\* route step only when it is Some, the only host route it ever adds is the
\* /32 (IPv4) or /128 (IPv6) route to forwarded_guest_ip via veth2_ip's
\* address, and a successful Add has added that route exactly when it is
\* Some and left the inner namespace with the DNAT rule exactly then.
C13_ForwardingIffForwardedGuestIp ==
    last.op = "NamespacedAdd" =>
        LET nsd == last.nsd
            f == nf_family(last.net)
            some == IsSome(nsd.forwarded_guest_ip)
            snat == inner_snat_expr(nsd.veth2_name, last.net.guest_ip, nsd.veth2_ip, f)
            dnat == inner_dnat_expr(nsd.veth2_name, nsd.forwarded_guest_ip,
                                    last.net.guest_ip, f)
            added == kernel[HostNs].routes \ last.pre[HostNs].routes
        IN /\ Len(last.batches) >= 1 =>
                LET b == last.batches[1]
                IN /\ AddsTable(b, f)
                   /\ AddsChain(b, f, NFT_POSTROUTING_CHAIN)
                   /\ BatchRules(b, "add", NFT_POSTROUTING_CHAIN, snat) = 1
                   /\ AddsChain(b, f, NFT_PREROUTING_CHAIN) <=> some
                   /\ BatchRules(b, "add", NFT_PREROUTING_CHAIN, dnat) = (IF some THEN 1 ELSE 0)
                   /\ Cardinality(PreroutingRules(b)) = (IF some THEN 1 ELSE 0)
           /\ "outer_route" \in StepIds(last.steps) => some
           /\ added \subseteq (IF some THEN {ForwardRoute(nsd)} ELSE {})
           /\ last.result = Ok =>
                LET rs == kernel[nsd.netns_name].ruleset
                IN /\ added = (IF some THEN {ForwardRoute(nsd)} ELSE {})
                   /\ ChainCount(rs, f, NFT_PREROUTING_CHAIN) = (IF some THEN 1 ELSE 0)
                   /\ CountRules(rs, NFT_TABLE, NFT_PREROUTING_CHAIN, dnat)
                         = (IF some THEN 1 ELSE 0)
                   /\ CountRules(rs, NFT_TABLE, NFT_POSTROUTING_CHAIN, snat) = 1

\* Both cases have happened on one host: an Add with forwarding succeeded
\* after one without, and only the forwarded address has a route.
C13_Witness ==
    /\ prev.op = "NamespacedAdd" /\ ~IsSome(prev.nsd.forwarded_guest_ip)
    /\ last.op = "NamespacedAdd" /\ last.result = Ok
    /\ IsSome(last.nsd.forwarded_guest_ip)
    /\ kernel[HostNs].routes = {ForwardRoute(last.nsd)}
    /\ ChainCount(kernel[prev.nsd.netns_name].ruleset, nf_family(prev.net),
                  NFT_PREROUTING_CHAIN) = 0

\* The calls of a namespaced Add in the order of add.rs, and the positions
\* of the ones made inside the task of use_netns_in_thread.
NamespacedOrder ==
    << "veth_add", "veth1_index", "veth1_addr", "veth_up", "veth2_index", "veth2_setns",
       "use_netns_in_thread", "tap_build", "new_connection", "inner_veth2_index",
       "veth2_addr", "veth2_up", "default_route", "tap_index", "tap_addr", "tap_up",
       "inner_apply", "outer_get_ruleset", "outer_apply", "outer_route" >>
InnerPositions == {i \in 1..Len(NamespacedOrder) : 8 <= i /\ i <= 17}

HasLink(k, ns, name, ip) ==
    \E l \in k[ns].links : l.name = name /\ l.up /\ ip \in l.addrs

\* C14: the calls a namespaced Add has made are always an initial part of
\* the order of the specification, each on the namespace listed for it (the
\* caller's, or netns_name for the calls of the inner task); a call is only
\* made when the effect of the step before it is in place; and a successful
\* Add has made all of them, the route call only with forwarded_guest_ip.
C14_NamespacedStepsInOrder ==
    last.op = "NamespacedAdd" =>
        LET nsd == last.nsd
            inner == nsd.netns_name
            ids == StepIds(last.steps)
            f == nf_family(last.net)
        IN /\ Len(last.steps) <= Len(NamespacedOrder)
           /\ \A i \in 1..Len(last.steps) :
                 /\ last.steps[i].id = NamespacedOrder[i]
                 /\ last.steps[i].ns = (IF i \in InnerPositions THEN inner ELSE ambient)
           /\ last.result = Ok =>
                 Len(last.steps) = (IF IsSome(nsd.forwarded_guest_ip) THEN 20 ELSE 19)
           /\ "veth1_index" \in ids => LinkExists(kernel[ambient].links, nsd.veth1_name)
           /\ "veth2_index" \in ids => HasLink(kernel, ambient, nsd.veth1_name, nsd.veth1_ip)
           /\ "use_netns_in_thread" \in ids =>
                 /\ LinkExists(kernel[inner].links, nsd.veth2_name)
                 /\ ~LinkExists(kernel[ambient].links, nsd.veth2_name)
           /\ "new_connection" \in ids => LinkExists(kernel[inner].links, last.net.tap_name)
           /\ "default_route" \in ids => HasLink(kernel, inner, nsd.veth2_name, nsd.veth2_ip)
           /\ "tap_index" \in ids =>
                 Route(nsd.veth1_ip.fam, "default", 0, nsd.veth1_ip.addr) \in kernel[inner].routes
           /\ "inner_apply" \in ids => HasLink(kernel, inner, last.net.tap_name, last.net.tap_ip)
           /\ "outer_get_ruleset" \in ids =>
                 CountRules(kernel[inner].ruleset, NFT_TABLE, NFT_POSTROUTING_CHAIN,
                            inner_snat_expr(nsd.veth2_name, last.net.guest_ip, nsd.veth2_ip, f)) > 0
           /\ "outer_route" \in ids =>
                 CountRules(kernel[ambient].ruleset, NFT_TABLE, NFT_POSTROUTING_CHAIN,
                            outer_masq_expr(last.net, nsd)) > 0

\* A namespaced Add with forwarding that made all twenty calls.
C14_Witness ==
    /\ last.op = "NamespacedAdd" /\ last.result = Ok
    /\ Len(last.steps) = Len(NamespacedOrder)
    /\ last.steps[Len(last.steps)] = [id |-> "outer_route", ns |-> HostNs]
    /\ last.steps[17] = [id |-> "inner_apply", ns |-> last.nsd.netns_name]

\* The call at which an injected failure surfaces.
StepOfFault(fault) == IF fault = "netns_open" THEN "veth2_setns" ELSE fault
InnerTaskSteps == {NamespacedOrder[i] : i \in InnerPositions}
IsPrefix(s, t) == Len(s) <= Len(t) /\ SubSeq(t, 1, Len(s)) = s

\* C15: a call that fails is the last call of its operation and its error is
\* the operation's result; no call is made twice; a failure in the task of
\* the inner namespace leaves the host without the outer batch and the outer
\* route; a batch that failed changed nothing; and what the calls before the
\* failure did stays: the TAP and its address of a simple Add, the deleted
\* TAP of a simple Delete, the links, addresses, routes and inner rules of a
\* namespaced Add, and everything that was there before an Add.
C15_ErrorsPropagateWithoutRollback ==
    LET ids == StepIds(last.steps)
        nsd == last.nsd
        inner == nsd.netns_name
    IN /\ Cardinality(ids) = Len(last.steps)
       /\ last.fault # "none" =>
             /\ last.result \in {Error("TapDeviceError"), Error("NetlinkOperationError"),
                                 Error("NftablesError"), Error("NetnsError"), Error("IoError")}
             /\ LastStep(last.steps) = StepOfFault(last.fault)
       /\ (last.result # Ok /\ LastStep(last.steps) \in {"apply_ruleset", "inner_apply", "outer_apply"}
              /\ last.result = Error("NftablesError")) =>
             LET ns == last.steps[Len(last.steps)].ns
             IN kernel[ns].ruleset = last.pre[ns].ruleset
       /\ (last.op = "Add" /\ last.result # Ok) =>
             /\ Len(last.steps) >= 2 => TapExists(kernel, last.net)
             /\ "get_current_ruleset" \in ids =>
                   HasLink(kernel, HostNs, last.net.tap_name, last.net.tap_ip)
             /\ \A l \in last.pre[HostNs].links : LinkExists(kernel[HostNs].links, l.name)
             /\ IsPrefix(last.pre[HostNs].ruleset, kernel[HostNs].ruleset)
       /\ (last.op = "Delete" /\ last.result # Ok) =>
             /\ "get_current_ruleset" \in ids =>
                   /\ LinkExists(last.pre[HostNs].links, last.net.tap_name)
                   /\ ~TapExists(kernel, last.net)
             /\ "get_current_ruleset" \notin ids => kernel = last.pre
             /\ kernel[HostNs].ruleset = last.pre[HostNs].ruleset
       /\ (last.op = "Check" /\ last.result # Ok) => kernel = last.pre
       /\ (last.op = "NamespacedAdd" /\ last.result # Ok) =>
             /\ (LastStep(last.steps) \in InnerTaskSteps \cup {"use_netns_in_thread"}) =>
                   /\ ids \cap OuterSteps = {}
                   /\ Len(last.batches) <= 1
                   /\ kernel[HostNs].ruleset = last.pre[HostNs].ruleset
                   /\ kernel[HostNs].routes = last.pre[HostNs].routes
             /\ "veth1_index" \in ids => LinkExists(kernel[HostNs].links, nsd.veth1_name)
             /\ "veth2_index" \in ids => HasLink(kernel, HostNs, nsd.veth1_name, nsd.veth1_ip)
             /\ "use_netns_in_thread" \in ids => LinkExists(kernel[inner].links, nsd.veth2_name)
             /\ "new_connection" \in ids => LinkExists(kernel[inner].links, last.net.tap_name)
             /\ "tap_index" \in ids =>
                   /\ HasLink(kernel, inner, nsd.veth2_name, nsd.veth2_ip)
                   /\ Route(nsd.veth1_ip.fam, "default", 0, nsd.veth1_ip.addr)
                         \in kernel[inner].routes
             /\ "outer_get_ruleset" \in ids =>
                   /\ HasLink(kernel, inner, last.net.tap_name, last.net.tap_ip)
                   /\ kernel[inner].ruleset # <<>>
             /\ \A ns \in Namespaces :
                   /\ IsPrefix(last.pre[ns].ruleset, kernel[ns].ruleset)
                   /\ last.pre[ns].routes \subseteq kernel[ns].routes

\* A namespaced Add that failed at the default route of the inner namespace:
\* the veth pair and the TAP are there, the host has no rule and no route.
C15_Witness ==
    /\ last.op = "NamespacedAdd" /\ last.fault = "default_route"
    /\ last.result = Error("NetlinkOperationError")
    /\ LinkExists(kernel[HostNs].links, last.nsd.veth1_name)
    /\ LinkExists(kernel[last.nsd.netns_name].links, last.net.tap_name)
    /\ HasLink(kernel, last.nsd.netns_name, last.nsd.veth2_name, last.nsd.veth2_ip)
    /\ kernel[HostNs].ruleset = <<>>
    /\ kernel[HostNs].routes = {}

\* The positions of the rules of NFT_TABLE in a ruleset that sit in chain c
\* and carry expression e, and their handles.
Matching(rs, c, e) ==
    {i \in 1..Len(rs) :
        /\ rs[i].kind = "rule" /\ rs[i].table = NFT_TABLE
        /\ rs[i].chain = c /\ rs[i].expr = e}
Handles(rs, c, e) == {rs[i].handle : i \in Matching(rs, c, e)}

\* C16: a simple Delete that has deleted the TAP and listed the ruleset
\* returns ObjectNotFound(NfEgressForwardRule) exactly when the listing has
\* no forward rule of the network, ObjectNotFound(NfMasqueradeRule) exactly
\* when it has a forward rule but no masquerade rule, in both cases without
\* a batch; otherwise it hands nft one batch of two commands, the deletion
\* of a forward rule and of a masquerade rule of the listing by handle, and
\* when that succeeds the ruleset is the listing without these two rules.
C16_DeleteMissingRuleErrors ==
    (last.op = "Delete" /\ "get_current_ruleset" \in StepIds(last.steps)
       /\ last.fault # "get_current_ruleset") =>
        LET snap == last.snapshot
            fwd == Handles(snap, NFT_FILTER_CHAIN, forward_expr(last.net))
            masq == Handles(snap, NFT_POSTROUTING_CHAIN, masq_expr(last.net))
            f == nf_family(last.net)
        IN /\ ~TapExists(kernel, last.net)
           /\ snap = last.pre[HostNs].ruleset
           /\ last.result = ObjectNotFound("NfEgressForwardRule") <=> fwd = {}
           /\ last.result = ObjectNotFound("NfMasqueradeRule") <=> (fwd # {} /\ masq = {})
           /\ (fwd = {} \/ masq = {}) =>
                 /\ last.batches = <<>>
                 /\ "apply_ruleset" \notin StepIds(last.steps)
                 /\ kernel[HostNs].ruleset = snap
           /\ (fwd # {} /\ masq # {}) =>
                 /\ Len(last.batches) = 1
                 /\ \E hf \in fwd, hm \in masq :
                       /\ last.batches[1] =
                             << BatchDelete(Rule(f, NFT_TABLE, NFT_FILTER_CHAIN,
                                                 forward_expr(last.net), hf)),
                                BatchDelete(Rule(f, NFT_TABLE, NFT_POSTROUTING_CHAIN,
                                                 masq_expr(last.net), hm)) >>
                       /\ last.result = Ok =>
                             kernel[HostNs].ruleset =
                               SelectSeq(snap, LAMBDA x :
                                   ~(/\ x.kind = "rule" /\ x.family = f /\ x.table = NFT_TABLE
                                     /\ \/ x.chain = NFT_FILTER_CHAIN /\ x.handle = hf
                                        \/ x.chain = NFT_POSTROUTING_CHAIN /\ x.handle = hm))
                 /\ last.result # Ok =>
                       /\ last.result = Error("NftablesError")
                       /\ kernel[HostNs].ruleset = snap

\* A Delete that listed a forward rule of the network but no masquerade
\* rule: the TAP is gone, no batch was built and the forward rule is left.
C16_Witness ==
    /\ last.op = "Delete"
    /\ last.result = ObjectNotFound("NfMasqueradeRule")
    /\ Handles(last.snapshot, NFT_FILTER_CHAIN, forward_expr(last.net)) # {}
    /\ last.batches = <<>>
    /\ ~TapExists(kernel, last.net)
    /\ ForwardCount(kernel, last.net) > 0

\* C17: only rules of NFT_TABLE count as rules of the network. An Add that
\* built its batch left the masquerade rule out exactly when the listing has
\* one in NFT_TABLE; the handles of a Delete's batch are handles of rules of
\* NFT_TABLE; and a Check returns Ok only when the listing has both rules in
\* NFT_TABLE.
C17_RuleIdentityIncludesTable ==
    LET snap == last.snapshot
        fwd == Handles(snap, NFT_FILTER_CHAIN, forward_expr(last.net))
        masq == Handles(snap, NFT_POSTROUTING_CHAIN, masq_expr(last.net))
    IN /\ (last.op = "Add" /\ Len(last.batches) = 1) =>
             (BatchRules(last.batches[1], "add", NFT_POSTROUTING_CHAIN, masq_expr(last.net)) = 0
                <=> masq # {})
       /\ (last.op = "Delete" /\ Len(last.batches) = 1) =>
             /\ last.batches[1][1].obj.handle \in fwd
             /\ last.batches[1][2].obj.handle \in masq
       /\ (last.op = "Check" /\ last.result = Ok) => (fwd # {} /\ masq # {})

\* The handle of the first rule of a listing that matches.
Lowest(S) == CHOOSE i \in S : \A j \in S : i <= j
FirstHandle(rs, c, e) == rs[Lowest(Matching(rs, c, e))].handle

\* C18: the handles in the batch of a simple Delete are those of the first
\* forward rule and of the first masquerade rule of the network in the
\* order of the listing.
C18_FirstMatchingRuleWins ==
    (last.op = "Delete" /\ Len(last.batches) = 1) =>
        /\ last.batches[1][1].obj.handle =
              FirstHandle(last.snapshot, NFT_FILTER_CHAIN, forward_expr(last.net))
        /\ last.batches[1][2].obj.handle =
              FirstHandle(last.snapshot, NFT_POSTROUTING_CHAIN, masq_expr(last.net))

\* Two different networks that share the masquerade expression, both fully
\* added in kernel state k: each with its TAP and its forward rule, and the
\* one masquerade rule they share.
BothAdded(k, a, b) ==
    /\ a.tap_name # b.tap_name /\ masq_expr(a) = masq_expr(b)
    /\ TapExists(k, a) /\ TapExists(k, b)
    /\ ForwardCount(k, a) = 1 /\ ForwardCount(k, b) = 1
    /\ MasqCount(k, a) = 1

\* C19: when Add(B) succeeded with A added as well and Delete(A) then
\* succeeded, a Check(B) or a Delete(B) that comes next and meets no outside
\* failure returns Ok, and the Delete leaves nothing of B.
C19_DeleteKeepsOtherNetwork ==
    [][(/\ prev.op = "Add" /\ prev.result = Ok
        /\ last.op = "Delete" /\ last.result = Ok
        /\ BothAdded(last.pre, last.net, prev.net)
        /\ last'.op \in {"Check", "Delete"}
        /\ last'.net = prev.net
        /\ last'.fault = "none")
          => /\ last'.result = Ok
             /\ last'.op = "Delete" => ~Remains(kernel', prev.net)]_vars

\* C20: whatever state a simple Add started from, when it returned Ok a
\* Check of the same network that comes next and meets no outside failure
\* returns Ok: the TAP is there, NFT_TABLE and its two base chains are there,
\* and NFT_TABLE holds the forward and the masquerade rule of the network.
C20_CheckAfterAdd ==
    [][(/\ last.op = "Add" /\ last.result = Ok
        /\ last'.op = "Check" /\ last'.net = last.net /\ last'.fault = "none")
          => /\ last'.result = Ok
             /\ TapExists(kernel, last.net)
             /\ TableCount(kernel[HostNs].ruleset, nf_family(last.net)) = 1
             /\ ChainCount(kernel[HostNs].ruleset, nf_family(last.net), NFT_POSTROUTING_CHAIN) = 1
             /\ ChainCount(kernel[HostNs].ruleset, nf_family(last.net), NFT_FILTER_CHAIN) = 1
             /\ ForwardCount(kernel, last.net) > 0
             /\ MasqCount(kernel, last.net) > 0]_vars

\* A Check that returned Ok right after the successful Add of its network.
C20_Witness ==
    /\ prev.op = "Add" /\ prev.result = Ok
    /\ last.op = "Check" /\ last.net = prev.net
    /\ last.fault = "none" /\ last.result = Ok
    /\ Len(last.steps) = 2
    /\ ForwardCount(kernel, last.net) > 0

\* C21: a simple Delete that returns ObjectNotFound(NfEgressForwardRule) or
\* ObjectNotFound(NfMasqueradeRule) has handed no batch to nft and left the
\* ruleset of every namespace as it was, so neither rule of the network was
\* removed; the TAP link that was there before is deleted, and no other
\* link, address or route has changed.
C21_DeleteRuleErrorsKeepRuleset ==
    (last.op = "Delete"
       /\ last.result \in {ObjectNotFound("NfEgressForwardRule"),
                           ObjectNotFound("NfMasqueradeRule")}) =>
        /\ last.batches = <<>>
        /\ "apply_ruleset" \notin StepIds(last.steps)
        /\ \A ns \in Namespaces :
              /\ kernel[ns].ruleset = last.pre[ns].ruleset
              /\ kernel[ns].nextHandle = last.pre[ns].nextHandle
              /\ kernel[ns].routes = last.pre[ns].routes
              /\ ns # HostNs => kernel[ns].links = last.pre[ns].links
        /\ ForwardCount(kernel, last.net) = ForwardCount(last.pre, last.net)
        /\ MasqCount(kernel, last.net) = MasqCount(last.pre, last.net)
        /\ TapExists(last.pre, last.net)
        /\ ~TapExists(kernel, last.net)
        /\ kernel[HostNs].links =
              last.pre[HostNs].links \ {LinkOf(last.pre[HostNs].links, last.net.tap_name)}

\* A Delete that found no forward rule of its network: its TAP is gone and
\* the masquerade rule it shares with another network is still there.
C21_Witness ==
    /\ last.op = "Delete"
    /\ last.result = ObjectNotFound("NfEgressForwardRule")
    /\ TapExists(last.pre, last.net)
    /\ ~TapExists(kernel, last.net)
    /\ MasqCount(kernel, last.net) = 1
    /\ kernel[HostNs].ruleset = last.pre[HostNs].ruleset

====
